---- MODULE Spec2Model ----
(***************************************************************************)
(* VideoSort-V2: the layered identification pipeline of                    *)
(* FileOrganizer.process_videos (src/file_organizer.py) together with the  *)
(* matchers it calls (TMDBClient.search_movie / search_tv_show,            *)
(* VideoAnalyzer.perform_visual_analysis,                                  *)
(* AudioAnalyzer.find_movie_by_audio_analysis).                            *)
(*                                                                         *)
(* Confidence values are Python floats in the source; here they are        *)
(* integers in units of 1/10000 (0.95 is 9500), which represents every     *)
(* value the modelled inputs produce exactly.                              *)
(*                                                                         *)
(* A file name stem is a sequence of string tokens separated by single     *)
(* blanks; the token "(n)" is a parenthesised number, so "Movie (1)" is    *)
(* <<"Movie", "(1)">>.                                                     *)
(***************************************************************************)
EXTENDS Integers, Sequences, FiniteSets, TLC

\* ---------------------------------------------------------------- bounds
NumFiles == 2          \* number of video files discovered in the source tree
MaxResults == 2        \* provider results per metadata search in a run
MaxPhrases == 3        \* distinctive phrases extracted from a transcription
MaxHits == 2           \* subtitle results returned for one phrase
\* longest title, in pieces, given to the similarity function on its own
MaxWords == 2
\* longest file name, in pieces, given to the parser on its own
MaxPieces == 3
\* longest list of provider results given to the metadata search on its own
MaxListed == 6

\* ------------------------------------------------------ program constants
TMDB_CONFIRM_SCORE == 9500
TMDB_PASS_SCORE == 7000
FINAL_CONFIDENCE_THRESHOLD == 6000
CAPA_2_GUARD == 9000
CAPA_1_STRONG == 8500
CAPA_1_BOOST == 9500
AUDIO_STRONG == 7500
CAPA_2_BOOST == 9800
GEMINI_HIGH == 8000
GEMINI_AMBIGUOUS == 5000
CAPA_3_HIGH == 8000
CAPA_3_MANUAL == 6500
CAPA_3_DISTRUST == 4000
YEAR_BONUS == 2000
RESULTS_CONSIDERED == 5
VISUAL_MIN == 3000
PHRASES_SUBMITTED == 5
SEARCH_MAX_RESULTS == 3
TOP_MATCHES == 10
MIN_CONSENSUS == 2
AUDIO_CAP == 9000

Max(a, b) == IF a >= b THEN a ELSE b
Min(a, b) == IF a <= b THEN a ELSE b

\* ------------------------------------------------------------ file names
\* "(n)": a blank-separated parenthesised number, the text \s\(\d+\) matches
Paren(n) == "(" \o ToString(n) \o ")"

\* the parenthesised numbers of the model's names: counters and years
NumGroups == {Paren(n) : n \in 0..(NumFiles + 3)} \cup {"(2010)"}

\* re.search(r'\s\(\d+\)$', stem): the stem ends in a blank and a
\* parenthesised number
EndsInNumGroup(stem) == Len(stem) >= 2 /\ stem[Len(stem)] \in NumGroups

\* number of consecutive parenthesised numbers the stem ends in
RECURSIVE TrailingGroups(_)
TrailingGroups(stem) ==
    IF EndsInNumGroup(stem)
    THEN 1 + TrailingGroups(SubSeq(stem, 1, Len(stem) - 1))
    ELSE 0

\* --------------------------------------------------- VideoAnalyzer: parsing
\* "no value" for the dictionaries the pipeline passes around (Python None)
\* a name or title is the sequence of the pieces of its text between single spaces,
\* so that an empty piece stands for a leading, trailing or doubled space

\* title.strip(): the text without its leading and trailing spaces
RECURSIVE Strip(_)
Strip(title) ==
    IF title = <<>> THEN <<>>
    ELSE IF Head(title) = "" THEN Strip(Tail(title))
    ELSE IF title[Len(title)] = "" THEN Strip(SubSeq(title, 1, Len(title) - 1))
    ELSE title

NoInfo == [found |-> FALSE, type |-> "none", title |-> <<>>, year |-> "",
           season |-> 0, episode |-> 0, tmdb_id |-> 0]

\* A source file: its stem and extension, and what the regular expressions
\* of VideoAnalyzer find in it (problematic-name filter, extra keywords,
\* series markers, the series patterns, the cleaned title and the year).
File(stem, problematic, extra, series_flag, series_match, clean, year, season, episode) ==
    [stem |-> stem, ext |-> ".mkv", problematic |-> problematic, extra |-> extra,
     series_flag |-> series_flag, series_match |-> series_match,
     clean |-> clean, year |-> year, season |-> season, episode |-> episode]

FileNames ==
    { File(<<"f13796081992">>, TRUE, FALSE, FALSE, FALSE, <<>>, "", 0, 0),
      File(<<"Movie">>, FALSE, FALSE, FALSE, FALSE, <<"Movie">>, "", 0, 0),
      File(<<"Movie", "(1)">>, FALSE, FALSE, FALSE, FALSE, <<"Movie", "(1)">>, "", 0, 0),
      File(<<"Movie", "(1)", "(1)">>, FALSE, FALSE, FALSE, FALSE,
           <<"Movie", "(1)", "(1)">>, "", 0, 0),
      File(<<"Movie.2010.1080p">>, FALSE, FALSE, FALSE, FALSE,
           <<"Movie", "2010", "2010">>, "2010", 0, 0),
      File(<<"Show.S01E03">>, FALSE, FALSE, TRUE, TRUE, <<"Show">>, "", 1, 3),
      File(<<"Show", "Episode", "5">>, FALSE, FALSE, TRUE, FALSE, <<"Show">>, "", 0, 0),
      File(<<"Movie", "Trailer">>, FALSE, TRUE, FALSE, FALSE, <<"Movie", "Trailer">>, "", 0, 0) }

\* mutation of extract_series_info: a name no series pattern matches is
\* given a title all the same
extract_series_info_Fallback(f) ==
    [found |-> TRUE, type |-> "series", title |-> f.clean, year |-> "",
     season |-> f.season, episode |-> f.episode, tmdb_id |-> 0]

extract_series_info(f) ==
    IF f.series_match
    THEN [found |-> TRUE, type |-> "series", title |-> f.clean, year |-> "",
          season |-> f.season, episode |-> f.episode, tmdb_id |-> 0]
    ELSE NoInfo

extract_movie_info(f) ==
    [found |-> TRUE, type |-> "movie", title |-> f.clean, year |-> f.year,
     season |-> 0, episode |-> 0, tmdb_id |-> 0]

extract_video_info(f) ==
    IF f.problematic THEN NoInfo
    ELSE IF f.extra
    THEN [found |-> TRUE, type |-> "extra", title |-> f.clean, year |-> "",
          season |-> 0, episode |-> 0, tmdb_id |-> 0]
    ELSE IF f.series_flag THEN extract_series_info(f)
    ELSE extract_movie_info(f)

\* ---- the same functions computed on names made of the pieces below

\* what the regular expressions of VideoAnalyzer see in a piece
IsYear(piece) == piece = "2010"           \* line 178: \b(19|20)\d{2}\b
IsTag(piece) == piece = "1080p"           \* lines 169-172: quality and codec tags
IsEpisode(piece) == piece = "S01E01"      \* lines 192, 259, 315: S<n>E<n>
IsExtraWord(piece) == piece = "Trailer"   \* lines 84-103: keywords of extras
IsWord(piece) == piece # ""

\* number of characters and of letters of a piece
PieceLen(piece) ==
    CASE piece = "" -> 0
      [] piece = "mkv" -> 3
      [] piece \in {"2010", ".mkv"} -> 4
      [] piece \in {"Movie", "1080p"} -> 5
      [] piece = "S01E01" -> 6
      [] piece = "Trailer" -> 7

Letters(piece) ==
    CASE piece \in {"", "2010"} -> 0
      [] piece = "1080p" -> 1
      [] piece = "S01E01" -> 2
      [] piece \in {"mkv", ".mkv"} -> 3
      [] piece = "Movie" -> 5
      [] piece = "Trailer" -> 7

\* len(name): the pieces and the spaces between them
TextLen(name) ==
    LET sum[i \in 0..Len(name)] == IF i = 0 THEN 0 ELSE sum[i - 1] + PieceLen(name[i])
    IN  IF name = <<>> THEN 0 ELSE sum[Len(name)] + Len(name) - 1

\* line 72: the number of letters of the name
AlphaChars(name) ==
    LET sum[i \in 0..Len(name)] == IF i = 0 THEN 0 ELSE sum[i - 1] + Letters(name[i])
    IN  sum[Len(name)]

\* re.search: the first of the positions where an expression matches, 0
\* when there is none
FirstOf(positions) ==
    IF positions = {} THEN 0 ELSE CHOOSE i \in positions : \A j \in positions : i <= j

\* position of the first year of the name
FirstYear(name) == FirstOf({i \in 1..Len(name) : IsYear(name[i])})

\* position of the first episode marker of the name from position start on
FirstEpisode(name, start) == FirstOf({i \in start..Len(name) : IsEpisode(name[i])})

\* lines 213-214, 220-221: re.sub(r'[\.\-_]', ' ', name), then runs of spaces
\* made one and the ends stripped
Spaced(name) ==
    SelectSeq([i \in 1..Len(name) |-> IF name[i] = ".mkv" THEN "mkv" ELSE name[i]],
              IsWord)

\* lines 44-77: no pattern of the filter matches a name of these pieces that
\* has two letters, so the filter is its two closing tests
is_problematic_filename(stem) ==
    TextLen(stem) < 3 \/ AlphaChars(stem) < 2

\* lines 79-127
is_extra_content(stem) == \E i \in 1..Len(stem) : IsExtraWord(stem[i])

\* lines 159-225: the first year is noted (178-179), the tags are blanked
\* (184-188), the name is cut at its first episode marker (198-202), the year
\* is appended (208-210), the spaces are tidied (213-214), and a name left
\* shorter than two characters is replaced by the tidied original (217-221)
clean_filename_for_search(name) ==
    LET y == FirstYear(name)
        year == IF y = 0 THEN "" ELSE name[y]
        untagged == [i \in 1..Len(name) |-> IF IsTag(name[i]) THEN "" ELSE name[i]]
        e == FirstEpisode(untagged, 1)
        cut == IF e = 0 THEN untagged ELSE SubSeq(untagged, 1, e - 1)
        dated == IF year # "" THEN Append(cut, year) ELSE cut
    IN  [name |-> IF TextLen(Spaced(dated)) < 2 THEN Spaced(name) ELSE Spaced(dated),
         year |-> year]

\* lines 327-339 of extract_series_info: group 1 of the first series pattern
\* is the text before the first marker that has text before it, stripped;
\* its cleaned form is the title unless that is shorter than two characters
SeriesTitle(stem, marker) ==
    LET series_name == Strip(SubSeq(stem, 1, marker - 1))
        clean_name == clean_filename_for_search(series_name).name
    IN  IF TextLen(clean_name) < 2 THEN series_name ELSE clean_name

\* what the expressions find in a name of these pieces
Scan(stem) ==
    LET marker == FirstEpisode(stem, 2)
        series_flag == \E i \in 1..Len(stem) : IsEpisode(stem[i])
        extra == is_extra_content(stem)
        cleaned == clean_filename_for_search(stem)
        as_series == series_flag /\ ~extra
    IN  File(stem, is_problematic_filename(stem), extra, series_flag, marker # 0,
             IF ~as_series THEN cleaned.name
             ELSE IF marker # 0 THEN SeriesTitle(stem, marker) ELSE <<>>,
             IF as_series \/ extra THEN "" ELSE cleaned.year,
             IF marker # 0 THEN 1 ELSE 0, IF marker # 0 THEN 1 ELSE 0)

\* Path(title + extension).stem: the name a title makes with the extension
FileName(title) == IF title = <<>> THEN <<".mkv">> ELSE title

\* ------------------------------------------------- TMDBClient: Layer 0 search
NoTmdb == [found |-> FALSE, title |-> <<>>, year |-> "", tmdb_id |-> 0,
           similarity_score |-> 0]

\* title1.lower() / title2.lower(), word by word
Lower(word) ==
    CASE word = "Movie" -> "movie"
      [] word = "Show" -> "show"
      [] word = "Trailer" -> "trailer"
      [] OTHER -> word

LowerTitle(title) == [i \in 1..Len(title) |-> Lower(title[i])]

\* set(title.split()) of the lower-cased title
WordSet(title) == {Lower(title[i]) : i \in 1..Len(title)} \ {""}

\* mutation of calculate_title_similarity: only equal titles are similar
calculate_title_similarity_Exact(title1, title2) ==
    IF Strip(LowerTitle(title1)) = Strip(LowerTitle(title2)) THEN 10000 ELSE 0

\* lines 16-35: 1.0 for titles equal up to case and surrounding space, else
\* the share of the words of both titles that the two have in common
calculate_title_similarity(title1, title2) ==
    IF Strip(LowerTitle(title1)) = Strip(LowerTitle(title2)) THEN 10000
    ELSE LET words1 == WordSet(title1)
             words2 == WordSet(title2)
         IN  IF words1 = {} \/ words2 = {} THEN 0
             ELSE (Cardinality(words1 \cap words2) * 10000)
                      \div Cardinality(words1 \cup words2)

\* similarities of a result's original title to the query
SimValues == {0, 5990, 6000, 7000, 10000}

\* one provider result: its title, release year, id (0: absent) and the
\* similarity of its original title (a text of its own) to the query
\* (a full record with release date and id, or a bare one with neither)
ProviderResults ==
    { [title |-> <<"Movie">>, year |-> d.year, id |-> d.id, sim |-> s] :
        d \in { [year |-> "2010", id |-> 27205], [year |-> "", id |-> 0] },
        s \in SimValues }

ResultLists ==
    UNION { [1..n -> ProviderResults] : n \in 0..MaxResults }

\* mutation of Considered: every result of the provider is looked at
Considered_All(results) == results

\* the first 5 results, data['results'][:5]
Considered(results) == SubSeq(results, 1, Min(Len(results), RESULTS_CONSIDERED))

\* lines 75-79: the better of the similarities of title and original title
Similarity(r, title) == Max(calculate_title_similarity(title, r.title), r.sim)

\* similarity of one result, with the year bonus of search_movie
MovieScore(r, title, year) ==
    IF year # "" /\ r.year # "" /\ year = r.year
    THEN Similarity(r, title) + YEAR_BONUS
    ELSE Similarity(r, title)

\* the loop "if similarity > best_score": state after the first k results
RECURSIVE BestMatch(_, _, _, _, _)
BestMatch(results, title, year, bonus, k) ==
    IF k = 0 THEN [score |-> 0, at |-> 0]
    ELSE LET prev == BestMatch(results, title, year, bonus, k - 1)
             s == IF bonus THEN MovieScore(results[k], title, year)
                  ELSE Similarity(results[k], title)
         IN  IF s > prev.score THEN [score |-> s, at |-> k] ELSE prev

SearchResult(results, title, year, bonus, min_score, fail) ==
    IF fail \/ results = <<>> THEN NoTmdb
    ELSE LET rs == Considered(results)
             best == BestMatch(rs, title, year, bonus, Len(rs))
         IN  IF best.score < min_score \/ best.at = 0 THEN NoTmdb
             ELSE [found |-> TRUE, title |-> rs[best.at].title,
                   year |-> rs[best.at].year, tmdb_id |-> rs[best.at].id,
                   similarity_score |-> best.score]

search_movie(results, title, year, min_score, fail) ==
    SearchResult(results, title, year, TRUE, min_score, fail)

search_tv_show(results, title, min_score, fail) ==
    SearchResult(results, title, "", FALSE, min_score, fail)

_run_capa_0(video_info, results, min_score, fail) ==
    IF video_info.type = "series"
    THEN search_tv_show(results, video_info.title, min_score, fail)
    ELSE search_movie(results, video_info.title, video_info.year, min_score, fail)

\* mutation of UpdateInfo: the title parsed from the file name is kept
UpdateInfo_KeepTitle(video_info, tmdb_info) ==
    [video_info EXCEPT !.year = tmdb_info.year, !.tmdb_id = tmdb_info.tmdb_id]

\* video_info.update(tmdb_info): title, year and id come from the provider
UpdateInfo(video_info, tmdb_info) ==
    [video_info EXCEPT !.title = tmdb_info.title, !.year = tmdb_info.year,
                       !.tmdb_id = tmdb_info.tmdb_id]

\* ------------------------------------------- VideoAnalyzer: visual analysis
NoAnalysis == [found |-> FALSE, confidence |-> 0, detected_text |-> FALSE,
               actors |-> FALSE, suggestion |-> FALSE]

\* mutation of perform_visual_analysis: the exception handler returns the
\* analysis built so far instead of None
perform_visual_analysis_KeepPartial(text, from_text, actors, fail) ==
    LET suggestion == (text /\ from_text) \/ actors
        confidence == (IF text THEN 5000 ELSE 0) + (IF actors THEN 3000 ELSE 0)
                      + (IF suggestion THEN 2000 ELSE 0)
    IN  IF confidence > VISUAL_MIN
        THEN [found |-> TRUE, confidence |-> confidence, detected_text |-> text,
              actors |-> actors, suggestion |-> suggestion]
        ELSE NoAnalysis

\* mutation of perform_visual_analysis: a recognised actor gives no search
\* suggestion
perform_visual_analysis_TextOnly(text, from_text, actors, fail) ==
    IF fail THEN NoAnalysis
    ELSE LET suggestion == text /\ from_text
             confidence == (IF text THEN 5000 ELSE 0) + (IF actors THEN 3000 ELSE 0)
                           + (IF suggestion THEN 2000 ELSE 0)
         IN  IF confidence > VISUAL_MIN
             THEN [found |-> TRUE, confidence |-> confidence, detected_text |-> text,
                   actors |-> actors, suggestion |-> suggestion]
             ELSE NoAnalysis

\* text: OCR found text in a sampled frame; from_text: a search suggestion
\* could be derived from it; actors: a known face was recognised;
\* fail: the analysis raised (file unreadable, no frames, library error)
perform_visual_analysis(text, from_text, actors, fail) ==
    IF fail THEN NoAnalysis
    ELSE LET suggestion == (text /\ from_text) \/ actors
             confidence == (IF text THEN 5000 ELSE 0) + (IF actors THEN 3000 ELSE 0)
                           + (IF suggestion THEN 2000 ELSE 0)
         IN  IF confidence > VISUAL_MIN
             THEN [found |-> TRUE, confidence |-> confidence, detected_text |-> text,
                   actors |-> actors, suggestion |-> suggestion]
             ELSE NoAnalysis

VisualOutcomes ==
    { perform_visual_analysis(t, s, a, f) : t \in BOOLEAN, s \in BOOLEAN,
                                            a \in BOOLEAN, f \in BOOLEAN }

\* ------------------------------------ AudioAnalyzer: subtitle identification
NoAudio == [found |-> FALSE, title |-> "", confidence_score |-> 0,
            matched_phrases |-> 0, total_phrases |-> 0]

\* one search_opensubtitles result: title key "title (year)" and its score
\* download_count*0.5 + rating*0.3
SubtitleResults ==
    { [title |-> "A", score |-> 2], [title |-> "A", score |-> 1],
      [title |-> "B", score |-> 1] }

\* what one phrase's search returns: at most max_results=3 results
\* (an empty list when the search fails)
PhraseHits ==
    UNION { [1..n -> SubtitleResults] : n \in 0..Min(MaxHits, SEARCH_MAX_RESULTS) }

\* distinctive_phrases[:5]: how many phrases are submitted
Submitted(phrases) == Min(phrases, PHRASES_SUBMITTED)

\* best_matches after the first k phrases, each entry tagged with its phrase
RECURSIVE BestMatches(_, _)
BestMatches(hits, k) ==
    IF k = 0 THEN <<>>
    ELSE BestMatches(hits, k - 1) \o
         [i \in 1..Len(hits[k]) |->
            [title |-> hits[k][i].title, score |-> hits[k][i].score,
             matched_phrase |-> k]]

\* list.sort(key=score, reverse=True) is stable: insert m behind every
\* entry whose score is at least m's
InsertDesc(sorted, m) ==
    LET ahead == Cardinality({i \in 1..Len(sorted) : sorted[i].score >= m.score})
    IN  SubSeq(sorted, 1, ahead) \o <<m>> \o SubSeq(sorted, ahead + 1, Len(sorted))

RECURSIVE SortDesc(_, _)
SortDesc(matches, k) ==
    IF k = 0 THEN <<>> ELSE InsertDesc(SortDesc(matches, k - 1), matches[k])

\* best_matches[:10]
TopMatches(matches) ==
    SubSeq(SortDesc(matches, Len(matches)), 1, Min(Len(matches), TOP_MATCHES))

\* title_counts[key]['count']: entries of the top matches with that title
TitleCount(top, title) == Cardinality({i \in 1..Len(top) : top[i].title = title})

\* max(title_counts.values(), key=count): the first inserted key among
\* those with the largest count
MostCommon(top) ==
    LET first(t) == CHOOSE i \in 1..Len(top) :
                        /\ top[i].title = t
                        /\ \A j \in 1..(i - 1) : top[j].title # t
        best == CHOOSE i \in 1..Len(top) :
                    /\ first(top[i].title) = i
                    /\ \A j \in 1..Len(top) :
                          \/ TitleCount(top, top[j].title) < TitleCount(top, top[i].title)
                          \/ /\ TitleCount(top, top[j].title) = TitleCount(top, top[i].title)
                             /\ first(top[j].title) >= i
    IN  [title |-> top[best].title, count |-> TitleCount(top, top[best].title)]

\* the acceptance test "most_common['count'] >= 2"
Consensus(count) == count >= MIN_CONSENSUS

\* phrases: len(distinctive_phrases); hits[k]: results of the k-th submitted
\* phrase; fail: the transcription or the analysis raised
find_movie_by_audio_analysis(phrases, hits, fail) ==
    IF fail \/ phrases = 0 THEN NoAudio
    ELSE LET matches == BestMatches(hits, Len(hits))
         IN  IF matches = <<>> THEN NoAudio
             ELSE LET most_common == MostCommon(TopMatches(matches))
                  IN  IF Consensus(most_common.count)
                      THEN [found |-> TRUE, title |-> most_common.title,
                            confidence_score |->
                                Min(AUDIO_CAP, (most_common.count * 10000) \div phrases),
                            matched_phrases |-> most_common.count,
                            total_phrases |-> phrases]
                      ELSE NoAudio

\* phrases of the input that returned a result with the given title
PhrasesMatching(hits, title) ==
    {k \in 1..Len(hits) : \E i \in 1..Len(hits[k]) : hits[k][i].title = title}

\* all inputs of the audio matcher within the bounds
AudioInputs ==
    UNION { {[phrases |-> p, hits |-> h] : h \in [1..Submitted(p) -> PhraseHits]}
            : p \in 0..MaxPhrases }

\* ------------------------------------------- FileOrganizer: confidence rules
\* mutation of Capa0Update: any match counts as a confirmed one
Capa0Update_Confirm(confidence, info) ==
    IF info.found THEN TMDB_CONFIRM_SCORE ELSE confidence

\* Layer 0 (metadata): lines 204-206
Capa0Update(confidence, info) ==
    IF info.found THEN info.similarity_score ELSE confidence

\* mutation of Capa1Update: the partial boost overwrites a higher confidence
Capa1Update_NoMax(confidence, analysis) ==
    LET capa_1_score == IF analysis.found THEN analysis.confidence ELSE 0
    IN  IF capa_1_score >= CAPA_1_STRONG THEN CAPA_1_BOOST
        ELSE IF capa_1_score > confidence THEN (capa_1_score * 8) \div 10
        ELSE confidence

\* Layer 1 (perceptual hash, proxied by the visual analysis score)
Capa1Update(confidence, analysis) ==
    LET capa_1_score == IF analysis.found THEN analysis.confidence ELSE 0
    IN  IF capa_1_score >= CAPA_1_STRONG THEN CAPA_1_BOOST
        ELSE IF capa_1_score > confidence
        THEN Max(confidence, (capa_1_score * 8) \div 10)
        ELSE confidence

\* mutation of Capa2Update: a weak audio match is not penalised
Capa2Update_NoPenalty(confidence, audio) ==
    IF audio.found /\ audio.confidence_score >= AUDIO_STRONG THEN CAPA_2_BOOST
    ELSE confidence

\* Layer 2 (audio)
Capa2Update(confidence, audio) ==
    IF audio.found /\ audio.confidence_score >= AUDIO_STRONG THEN CAPA_2_BOOST
    ELSE IF audio.found THEN confidence \div 2
    ELSE confidence

\* Layer 3 (AI verification, proxied by 0.9 times the visual analysis score)
GeminiConf(analysis) == IF analysis.found THEN (analysis.confidence * 9) \div 10 ELSE 0

\* mutation of Capa3Update: without AI evidence the confidence is kept
Capa3Update_Keep(confidence, analysis) ==
    IF GeminiConf(analysis) >= GEMINI_HIGH THEN CAPA_3_HIGH
    ELSE IF GeminiConf(analysis) > GEMINI_AMBIGUOUS THEN CAPA_3_MANUAL
    ELSE confidence

Capa3Update(confidence, analysis) ==
    LET gemini_conf == GeminiConf(analysis)
    IN  IF gemini_conf >= GEMINI_HIGH THEN CAPA_3_HIGH
        ELSE IF gemini_conf > GEMINI_AMBIGUOUS THEN CAPA_3_MANUAL
        ELSE Min(confidence, CAPA_3_DISTRUST)

\* mutation of VisualGuard: the confidence left by Layer 0 is not tested
VisualGuard_AnyConfidence(confidence, opts) ==
    /\ (opts.capa_1 \/ opts.capa_3)
    /\ (opts.facial_recognition \/ opts.ocr_analysis)

\* the guards of the blocks of process_videos
VisualGuard(confidence, opts) ==
    /\ confidence < TMDB_CONFIRM_SCORE
    /\ (opts.capa_1 \/ opts.capa_3)
    /\ (opts.facial_recognition \/ opts.ocr_analysis)

Capa1Guard(confidence, opts) == confidence < TMDB_CONFIRM_SCORE /\ opts.capa_1

Capa2Guard(confidence, opts) == confidence < CAPA_2_GUARD /\ opts.capa_2

\* mutation of Capa3Guard: the guard tests the bound of Layer 2's guard
Capa3Guard_Copied(confidence, opts) == confidence < CAPA_2_GUARD /\ opts.capa_3

Capa3Guard(confidence, opts) == confidence < FINAL_CONFIDENCE_THRESHOLD /\ opts.capa_3

\* mutation of Deferred: a confidence of exactly the threshold is deferred
Deferred_Inclusive(confidence) == confidence <= FINAL_CONFIDENCE_THRESHOLD

\* the final decision: TRUE when the file is kept in the source (deferred)
Deferred(confidence) == confidence < FINAL_CONFIDENCE_THRESHOLD

\* ----------------------------------------------------- FileOrganizer: naming
Pad2(n) == IF n < 10 THEN "0" \o ToString(n) ELSE ToString(n)

\* "Title (Year)" when the year is set, else "Title"
TitleYear(video_info) ==
    IF video_info.year # ""
    THEN Append(video_info.title, "(" \o video_info.year \o ")")
    ELSE video_info.title

\* the folder create_jellyfin_structure makes under the destination root
create_jellyfin_structure(video_info) ==
    IF video_info.type = "movie"
    THEN [root |-> "movies", folder |-> TitleYear(video_info)]
    ELSE IF video_info.type = "series"
    THEN [root |-> "series",
          folder |-> video_info.title \o <<"/", "Season", Pad2(video_info.season)>>]
    ELSE [root |-> "series", folder |-> video_info.title \o <<"/", "Extras">>]

\* number of characters of a stem (tokens joined by single blanks)
RECURSIVE StemLen(_)
StemLen(stem) ==
    IF stem = <<>> THEN 0
    ELSE IF Len(stem) = 1 THEN Len(stem[1])
    ELSE Len(stem[1]) + 1 + StemLen(Tail(stem))

\* the stem of the name generate_jellyfin_filename returns
generate_jellyfin_filename(video_info, original_stem) ==
    IF video_info.type = "movie" THEN TitleYear(video_info)
    ELSE IF video_info.type = "series"
    THEN video_info.title \o
         <<"-", "S" \o Pad2(video_info.season) \o "E" \o Pad2(video_info.episode)>>
    ELSE IF StemLen(original_stem) > 5 THEN original_stem
    ELSE video_info.title \o <<"-", "Trailer">>

Path(dir, stem, ext) == [root |-> dir.root, folder |-> dir.folder, stem |-> stem, ext |-> ext]

\* mutation of StripSuffix: nothing is removed from the generated stem
StripSuffix_Keep(stem) == stem

\* original_stem of the collision branch: one trailing " (n)" is removed
StripSuffix(stem) ==
    IF EndsInNumGroup(stem) THEN SubSeq(stem, 1, Len(stem) - 1) ELSE stem

\* the name tried for a counter value
Numbered(original_stem, counter) == Append(original_stem, Paren(counter))

\* mutation of ResolveCollision: the generated path is used as it is
ResolveCollision_Overwrite(existing, dest_file) == dest_file

\* lines 327-333: the destination actually used, given the existing paths
ResolveCollision(existing, dest_file) ==
    IF dest_file \in existing
    THEN LET original_stem == StripSuffix(dest_file.stem)
             candidate(n) == [dest_file EXCEPT !.stem = Numbered(original_stem, n)]
             counter == CHOOSE n \in 1..(Cardinality(existing) + 1) :
                           /\ candidate(n) \notin existing
                           /\ \A m \in 1..(n - 1) : candidate(m) \in existing
         IN  candidate(counter)
    ELSE dest_file

\* ================================================= process_videos: state
VARIABLES
    options,          \* capas_activas, modulos_entrada, move_files, tmdb_min_score
    videos_found,     \* number of video files discovered under the source path
    idx,              \* position of the loop over videos_found (1-based)
    pc,               \* position inside the loop body
    file,             \* the file video_path names
    video_info, tmdb_info, analysis_result, audio_match, final_confidence,
    dest_file,        \* destination path chosen for the current file
    stats,            \* the run's counters
    source,           \* indices of the files still in the source tree
    dest,             \* video files (and partial copies) in the destination trees
    folders,          \* folders created under the destination roots
    sidecars,         \* sidecar files written
    calls,            \* per current file: how often each matcher was invoked
    ran,              \* per current file: the layer blocks that were executed
    capa_0_confidence,\* per current file: final_confidence when Layer 0 was left
    failed,           \* per current file: the matchers whose call failed inside
    audio_input,      \* per current file: the transcription given to the audio matcher
    outcome,          \* per file index: what the loop did with it
    arguments,        \* the arguments of a function called on its own
    returned,         \* what that call returned
    builder           \* the reference database builder and its build thread

vars == <<options, videos_found, idx, pc, file, video_info, tmdb_info, analysis_result, audio_match,
          final_confidence, dest_file, stats, source, dest, folders, sidecars,
          calls, ran, capa_0_confidence, failed, audio_input, outcome,
          arguments, returned, builder>>

pipeline == <<video_info, tmdb_info, analysis_result, audio_match, final_confidence>>
filesystem == <<source, dest, folders, sidecars>>

MinScores == {5000}

Options ==
    [capa_0 : BOOLEAN, capa_1 : BOOLEAN, capa_2 : BOOLEAN, capa_3 : BOOLEAN,
     facial_recognition : BOOLEAN, ocr_analysis : BOOLEAN, audio_whisper : BOOLEAN,
     move_files : BOOLEAN, tmdb_min_score : MinScores]

NoPath == [root |-> "", folder |-> <<>>, stem |-> <<>>, ext |-> ""]
NoFile == File(<<>>, FALSE, FALSE, FALSE, FALSE, <<>>, "", 0, 0)
\* reference_database_builder.py lines 55-56: the builder as constructed
NoBuild == [at |-> "idle", should_stop |-> FALSE, paused |-> FALSE]
NoCalls == [metadata |-> 0, visual |-> 0, audio |-> 0]
NoTranscription == [phrases |-> 0, hits |-> <<>>]

MovieDir == [root |-> "movies", folder |-> <<"Movie">>]

\* a video file that is already in the destination tree before the run
PreExisting == { Path(MovieDir, <<"Movie">>, ".mkv") }

\* the outcome counters of stats
ZeroStats == [movies_processed |-> 0, series_processed |-> 0, unknown_files |-> 0,
              errors |-> 0, skipped_low_confidence |-> 0]

\* the configurations of the multi-file runs: files are moved, Layer 1
\* with the facial module decides, with or without Layer 0
RunOptions ==
    { o \in Options : /\ o.capa_1 /\ ~o.capa_2 /\ ~o.capa_3
                      /\ o.facial_recognition /\ ~o.ocr_analysis /\ ~o.audio_whisper
                      /\ o.move_files }

Fresh(opts, count, tree) ==
    /\ options \in opts
    /\ videos_found = count
    /\ dest \in tree
    /\ idx = 1
    /\ file = NoFile
    /\ video_info = NoInfo
    /\ tmdb_info = NoTmdb
    /\ analysis_result = NoAnalysis
    /\ audio_match = NoAudio
    /\ final_confidence = 0
    /\ dest_file = NoPath
    /\ stats = ZeroStats
    /\ source = 1..count
    /\ folders = {}
    /\ sidecars = {}
    /\ calls = NoCalls
    /\ ran = {}
    /\ capa_0_confidence = 0
    /\ failed = {}
    /\ outcome = [k \in 1..count |-> "pending"]

\* process_videos is entered at the head of its loop
Start(opts, count, tree) ==
    /\ Fresh(opts, count, tree)
    /\ pc = "loop"
    /\ audio_input = NoTranscription
    /\ arguments = <<>>
    /\ returned = <<>>
    /\ builder = NoBuild

\* a run over NumFiles files into a destination tree that may hold files
Init == Start(RunOptions, NumFiles, {{}, PreExisting})

\* a run over a single file, under every configuration, into an empty tree
InitPipeline == Start(Options, 1, {{}})

Bump(counter) == [stats EXCEPT ![counter] = @ + 1]

perfile == <<file, video_info, tmdb_info, analysis_result, audio_match,
             final_confidence, dest_file, calls, ran, capa_0_confidence, failed,
             audio_input>>

\* lines 181-183: the per-file variables hold nothing of the previous file
\* once its iteration is over (they are reassigned before they are read)
ResetPerFile ==
    /\ file' = NoFile
    /\ video_info' = NoInfo
    /\ tmdb_info' = NoTmdb
    /\ analysis_result' = NoAnalysis
    /\ audio_match' = NoAudio
    /\ final_confidence' = 0
    /\ dest_file' = NoPath
    /\ calls' = NoCalls
    /\ ran' = {}
    /\ capa_0_confidence' = 0
    /\ failed' = {}
    /\ audio_input' = NoTranscription

\* mutation of DeferredStats: a deferred file also counts as an error
DeferredStats_Error(st) ==
    [st EXCEPT !.skipped_low_confidence = @ + 1, !.unknown_files = @ + 1,
               !.errors = @ + 1]

\* lines 302-303: the counters of a deferred file
DeferredStats(st) ==
    [st EXCEPT !.skipped_low_confidence = @ + 1, !.unknown_files = @ + 1]

\* "continue" / end of the loop body: on to the next file
NextFile(result) ==
    /\ idx' = idx + 1
    /\ pc' = "loop"
    /\ outcome' = [outcome EXCEPT ![idx] = result]
    /\ ResetPerFile

\* mutation of HandleException: the exception ends the loop
HandleException_Abort ==
    /\ stats' = Bump("errors")
    /\ idx' = videos_found + 1
    /\ pc' = "loop"
    /\ outcome' = [outcome EXCEPT ![idx] = "exception"]
    /\ ResetPerFile

\* lines 343-345: the per-file exception handler
HandleException ==
    /\ stats' = Bump("errors")
    /\ NextFile("exception")

\* lines 178-195: take the next file, reset the per-file variables, parse
StartFile ==
    /\ pc = "loop"
    /\ idx <= videos_found
    /\ \E f \in FileNames :
        IF extract_video_info(f).found
        THEN /\ file' = f
             /\ video_info' = extract_video_info(f)
             /\ pc' = "capa_0"
             /\ UNCHANGED <<tmdb_info, analysis_result, audio_match, final_confidence,
                            dest_file, calls, ran, capa_0_confidence, failed,
                            audio_input, idx, stats, outcome>>
        ELSE /\ stats' = Bump("unknown_files")
             /\ NextFile("unrecognized")
    /\ UNCHANGED <<options, videos_found, builder, arguments, returned, filesystem>>

\* lines 200-215: Layer 0, the metadata search
Capa0 ==
    /\ pc = "capa_0"
    /\ IF options.capa_0
       THEN \E fail \in BOOLEAN :
            \E info \in { _run_capa_0(video_info, results, options.tmdb_min_score, fail)
                           : results \in ResultLists } :
                  /\ tmdb_info' = info
                  /\ calls' = [calls EXCEPT !.metadata = @ + 1]
                  /\ failed' = IF fail THEN failed \cup {"metadata"} ELSE failed
                  /\ ran' = ran \cup {"capa_0"}
                  /\ video_info' = IF info.found THEN UpdateInfo(video_info, info)
                                   ELSE video_info
                  /\ final_confidence' = Capa0Update(final_confidence, info)
       ELSE UNCHANGED <<tmdb_info, calls, failed, ran, video_info, final_confidence>>
    /\ capa_0_confidence' = final_confidence'
    /\ pc' = "visual"
    /\ UNCHANGED <<options, videos_found, builder, arguments, returned, idx, file, analysis_result, audio_match,
                   dest_file, stats, filesystem, audio_input, outcome>>

\* lines 221-230: the visual analysis shared by Layers 1 and 3
Visual ==
    /\ pc = "visual"
    /\ IF VisualGuard(final_confidence, options)
       THEN \E text \in BOOLEAN, from_text \in BOOLEAN, actors \in BOOLEAN,
               fail \in BOOLEAN :
              LET result == perform_visual_analysis(text, from_text, actors, fail)
              IN  /\ analysis_result' = result
                  /\ calls' = [calls EXCEPT !.visual = @ + 1]
                  /\ failed' = IF fail THEN failed \cup {"visual"} ELSE failed
       ELSE UNCHANGED <<analysis_result, calls, failed>>
    /\ pc' = "capa_1"
    /\ UNCHANGED <<options, videos_found, builder, arguments, returned, idx, file, video_info, tmdb_info, audio_match,
                   final_confidence, dest_file, stats, filesystem, ran,
                   capa_0_confidence, audio_input, outcome>>

\* lines 235-248: Layer 1
Capa1 ==
    /\ pc = "capa_1"
    /\ IF Capa1Guard(final_confidence, options)
       THEN /\ final_confidence' = Capa1Update(final_confidence, analysis_result)
            /\ ran' = ran \cup {"capa_1"}
       ELSE UNCHANGED <<final_confidence, ran>>
    /\ pc' = "capa_2"
    /\ UNCHANGED <<options, videos_found, builder, arguments, returned, idx, file, video_info, tmdb_info,
                   analysis_result, audio_match, dest_file, stats, filesystem, calls,
                   capa_0_confidence, failed, audio_input, outcome>>

\* transcriptions the pipeline meets: nothing usable, two phrases agreeing
\* on one title, two of three phrases agreeing, phrases without any result,
\* and two phrases naming different titles
AudioSamples ==
    { [phrases |-> 0, hits |-> <<>>],
      [phrases |-> 2, hits |-> << <<[title |-> "A", score |-> 2]>>,
                                  <<[title |-> "A", score |-> 1]>> >>],
      [phrases |-> 3, hits |-> << <<[title |-> "A", score |-> 2]>>,
                                  <<[title |-> "A", score |-> 1]>>, <<>> >>],
      [phrases |-> 3, hits |-> << <<>>, <<>>, <<>> >>],
      [phrases |-> 2, hits |-> << <<[title |-> "A", score |-> 2]>>,
                                  <<[title |-> "B", score |-> 1]>> >>] }

\* lines 254-272: Layer 2
Capa2 ==
    /\ pc = "capa_2"
    /\ IF Capa2Guard(final_confidence, options)
       THEN /\ IF options.audio_whisper
               THEN \E in \in AudioSamples, fail \in BOOLEAN :
                      /\ audio_input' = in
                      /\ audio_match' = find_movie_by_audio_analysis(in.phrases, in.hits, fail)
                      /\ calls' = [calls EXCEPT !.audio = @ + 1]
                      /\ failed' = IF fail THEN failed \cup {"audio"} ELSE failed
               ELSE /\ audio_match' = NoAudio
                    /\ UNCHANGED <<audio_input, calls, failed>>
            /\ final_confidence' = Capa2Update(final_confidence, audio_match')
            /\ ran' = ran \cup {"capa_2"}
       ELSE UNCHANGED <<audio_input, audio_match, calls, failed, final_confidence, ran>>
    /\ pc' = "capa_3"
    /\ UNCHANGED <<options, videos_found, builder, arguments, returned, idx, file, video_info, tmdb_info,
                   analysis_result, dest_file, stats, filesystem, capa_0_confidence,
                   outcome>>

\* mutation of Capa3: Layer 3 runs the visual analysis again for itself
Capa3_Reanalyse ==
    /\ pc = "capa_3"
    /\ IF Capa3Guard(final_confidence, options)
       THEN \E text \in BOOLEAN, from_text \in BOOLEAN, actors \in BOOLEAN :
              /\ analysis_result' = perform_visual_analysis(text, from_text, actors, FALSE)
              /\ calls' = [calls EXCEPT !.visual = @ + 1]
              /\ final_confidence' = Capa3Update(final_confidence, analysis_result')
              /\ ran' = ran \cup {"capa_3"}
       ELSE UNCHANGED <<analysis_result, calls, final_confidence, ran>>
    /\ pc' = "decision"
    /\ UNCHANGED <<options, videos_found, builder, arguments, returned, idx, file, video_info, tmdb_info,
                   audio_match, dest_file, stats, filesystem, capa_0_confidence, failed,
                   audio_input, outcome>>

\* lines 278-293: Layer 3
Capa3 ==
    /\ pc = "capa_3"
    /\ IF Capa3Guard(final_confidence, options)
       THEN /\ final_confidence' = Capa3Update(final_confidence, analysis_result)
            /\ ran' = ran \cup {"capa_3"}
       ELSE UNCHANGED <<final_confidence, ran>>
    /\ pc' = "decision"
    /\ UNCHANGED <<options, videos_found, builder, arguments, returned, idx, file, video_info, tmdb_info,
                   analysis_result, audio_match, dest_file, stats, filesystem, calls,
                   capa_0_confidence, failed, audio_input, outcome>>

\* lines 298-309: the final decision
Decision ==
    /\ pc = "decision"
    /\ IF Deferred(final_confidence)
       THEN /\ stats' = DeferredStats(stats)
            /\ NextFile("deferred")
       ELSE /\ video_info' = IF tmdb_info.found THEN UpdateInfo(video_info, tmdb_info)
                             ELSE video_info
            /\ pc' = "structure"
            /\ UNCHANGED <<stats, idx, outcome, file, tmdb_info, analysis_result,
                           audio_match, final_confidence, dest_file, calls, ran,
                           capa_0_confidence, failed, audio_input>>
    /\ UNCHANGED <<options, videos_found, builder, arguments, returned, filesystem>>

\* lines 311-324: destination folder, counters and destination name;
\* mkdir may fail, and create_jellyfin_structure then returns None
Structure ==
    /\ pc = "structure"
    /\ \E mkdir_ok \in BOOLEAN :
        LET dir == create_jellyfin_structure(video_info)
            counted == IF video_info.type = "movie" THEN Bump("movies_processed")
                       ELSE Bump("series_processed")
        IN  IF mkdir_ok
            THEN /\ folders' = folders \cup {dir}
                 /\ stats' = counted
                 /\ dest_file' = Path(dir, generate_jellyfin_filename(video_info, file.stem),
                                      file.ext)
                 /\ pc' = "move"
                 /\ UNCHANGED <<idx, outcome, file, pipeline, calls, ran,
                                capa_0_confidence, failed, audio_input>>
            ELSE /\ stats' = [counted EXCEPT !.errors = @ + 1]
                 /\ NextFile("folder_error")
                 /\ UNCHANGED folders
    /\ UNCHANGED <<options, videos_found, builder, arguments, returned, source, dest, sidecars>>

\* mutation of Move: the file is moved whatever move_files says
Move_Always ==
    /\ pc = "move"
    /\ LET target == ResolveCollision(dest, dest_file)
       IN  /\ dest_file' = target
           /\ source' = source \ {idx}
           /\ dest' = dest \cup {target}
           /\ pc' = "sidecar"
           /\ UNCHANGED <<stats, idx, outcome, file, pipeline, calls, ran,
                          capa_0_confidence, failed, audio_input>>
    /\ UNCHANGED <<options, videos_found, builder, arguments, returned, folders, sidecars>>

\* lines 326-338 and the handler of lines 343-345: the move.  shutil.move
\* either succeeds or raises (OSError); when it raises, the source file is
\* still in place and the handler counts an error.
Move ==
    /\ pc = "move"
    /\ IF options.move_files
       THEN LET target == ResolveCollision(dest, dest_file)
            IN  \E moved \in BOOLEAN :
                  IF moved
                  THEN /\ dest_file' = target
                       /\ source' = source \ {idx}
                       /\ dest' = dest \cup {target}
                       /\ pc' = "sidecar"
                       /\ UNCHANGED <<stats, idx, outcome, file, pipeline, calls, ran,
                                      capa_0_confidence, failed, audio_input>>
                  ELSE /\ HandleException
                       /\ UNCHANGED <<source, dest>>
       ELSE /\ pc' = "sidecar"
            /\ UNCHANGED <<dest_file, source, dest, stats, idx, outcome, file, pipeline,
                           calls, ran, capa_0_confidence, failed, audio_input>>
    /\ UNCHANGED <<options, videos_found, builder, arguments, returned, folders, sidecars>>

\* mutation of Sidecar: the analysis file is written only when Layer 1 or
\* Layer 3 read the visual analysis
Sidecar_UsedOnly ==
    /\ pc = "sidecar"
    /\ sidecars' = sidecars
         \cup (IF tmdb_info.found /\ tmdb_info.tmdb_id # 0
                  /\ video_info.type \in {"movie", "series"}
               THEN {[dest_file EXCEPT !.ext = ".nfo"]} ELSE {})
         \cup (IF analysis_result.found /\ ran \cap {"capa_1", "capa_3"} # {}
               THEN {[dest_file EXCEPT !.ext = ".analysis.txt"]} ELSE {})
    /\ NextFile(IF options.move_files THEN "moved" ELSE "analysed")
    /\ UNCHANGED <<options, videos_found, builder, arguments, returned, stats, source, dest, folders>>

\* lines 340-341: the sidecar files next to the destination file
Sidecar ==
    /\ pc = "sidecar"
    /\ sidecars' = sidecars
         \cup (IF tmdb_info.found /\ tmdb_info.tmdb_id # 0
                  /\ video_info.type \in {"movie", "series"}
               THEN {[dest_file EXCEPT !.ext = ".nfo"]} ELSE {})
         \cup (IF analysis_result.found
               THEN {[dest_file EXCEPT !.ext = ".analysis.txt"]} ELSE {})
    /\ NextFile(IF options.move_files THEN "moved" ELSE "analysed")
    /\ UNCHANGED <<options, videos_found, builder, arguments, returned, stats, source, dest, folders>>

\* lines 347-349: after the last file
Finish ==
    /\ pc = "loop"
    /\ idx > videos_found
    /\ pc' = "done"
    /\ UNCHANGED <<options, videos_found, builder, arguments, returned, idx, perfile, stats, filesystem, outcome>>

Next ==
    \/ StartFile
    \/ Capa0
    \/ Visual
    \/ Capa1
    \/ Capa2
    \/ Capa3
    \/ Decision
    \/ Structure
    \/ Move
    \/ Sidecar
    \/ Finish

Spec == Init /\ [][Next]_vars

SpecPipeline == InitPipeline /\ [][Next]_vars

\* the multi-file runs again, with files moved and in dry run
FlagOptions ==
    { o \in Options : /\ o.capa_1 /\ ~o.capa_2 /\ ~o.capa_3
                      /\ o.facial_recognition /\ ~o.ocr_analysis /\ ~o.audio_whisper }

InitMoveFlag == Start(FlagOptions, NumFiles, {{}, PreExisting})

SpecMoveFlag == InitMoveFlag /\ [][Next]_vars

\* ------------------------------- the audio matcher on its own, on any input
AudioOnly ==
    { o \in Options : /\ o.capa_2 /\ o.audio_whisper /\ ~o.capa_0 /\ ~o.capa_1
                      /\ ~o.capa_3 /\ ~o.facial_recognition /\ ~o.ocr_analysis
                      /\ ~o.move_files }

InitAudio ==
    /\ Fresh(AudioOnly, 1, {{}})
    /\ pc = "audio"
    /\ audio_input \in AudioInputs
    /\ arguments = <<>>
    /\ returned = <<>>
    /\ builder = NoBuild

\* audio_analyzer.py lines 352-448: one call of find_movie_by_audio_analysis
AnalyseAudio ==
    /\ pc = "audio"
    /\ \E fail \in BOOLEAN :
         /\ audio_match' = find_movie_by_audio_analysis(audio_input.phrases,
                                                        audio_input.hits, fail)
         /\ failed' = IF fail THEN failed \cup {"audio"} ELSE failed
    /\ calls' = [calls EXCEPT !.audio = @ + 1]
    /\ pc' = "audio_done"
    /\ UNCHANGED <<options, videos_found, builder, arguments, returned, idx, file, video_info, tmdb_info,
                   analysis_result, final_confidence, dest_file, stats, filesystem,
                   ran, capa_0_confidence, audio_input, outcome>>

NextAudio == AnalyseAudio

SpecAudio == InitAudio /\ [][NextAudio]_vars

\* ------------------------- the title similarity on its own, on any two titles
NoLayers ==
    { o \in Options : /\ ~o.capa_0 /\ ~o.capa_1 /\ ~o.capa_2 /\ ~o.capa_3
                      /\ ~o.facial_recognition /\ ~o.ocr_analysis
                      /\ ~o.audio_whisper /\ ~o.move_files }

\* the pieces of the titles: words in either case and the empty piece
TitlePieces == {"", "Movie", "movie", "Show"}

Titles == UNION { [1..n -> TitlePieces] : n \in 1..MaxWords }

InitSimilarity ==
    /\ Fresh(NoLayers, 1, {{}})
    /\ pc = "similarity"
    /\ audio_input = NoTranscription
    /\ arguments \in Titles \X Titles
    /\ returned = <<>>
    /\ builder = NoBuild

\* tmdb_client.py lines 16-35: one call of calculate_title_similarity
CallSimilarity ==
    /\ pc = "similarity"
    /\ returned' = calculate_title_similarity(arguments[1], arguments[2])
    /\ pc' = "similarity_done"
    /\ UNCHANGED <<options, videos_found, builder, arguments, idx, perfile, stats, filesystem,
                   outcome>>

NextSimilarity == CallSimilarity

SpecSimilarity == InitSimilarity /\ [][NextSimilarity]_vars

\* ------------------------------------ the parser on its own, on any file name

\* the pieces of the names: the empty piece, a word, a year, a quality tag,
\* an episode marker and a keyword of extras
Pieces == {"", "Movie", "2010", "1080p", "S01E01", "Trailer"}

\* the stems of video files: a name that is only an extension is not one
Names == { n \in UNION { [1..k -> Pieces] : k \in 1..MaxPieces } : TextLen(n) > 0 }

InitParse ==
    /\ Fresh(NoLayers, 1, {{}})
    /\ pc = "parse"
    /\ audio_input = NoTranscription
    /\ arguments \in Names
    /\ returned = <<>>
    /\ builder = NoBuild

\* video_analyzer.py lines 227-273: extract_video_info on the file's name
ParseName ==
    /\ pc = "parse"
    /\ returned' = <<extract_video_info(Scan(arguments))>>
    /\ pc' = "parsed"
    /\ UNCHANGED <<options, videos_found, builder, arguments, idx, perfile, stats, filesystem,
                   outcome>>

\* extract_video_info on the title the first call returned, as a file name
ParseTitle ==
    /\ pc = "parsed"
    /\ returned[1].found
    /\ returned[1].type \in {"movie", "series"}
    /\ returned' = Append(returned, extract_video_info(Scan(FileName(returned[1].title))))
    /\ pc' = "parsed_again"
    /\ UNCHANGED <<options, videos_found, builder, arguments, idx, perfile, stats, filesystem,
                   outcome>>

NextParse == ParseName \/ ParseTitle

SpecParse == InitParse /\ [][NextParse]_vars

\* ----------------------- the metadata search on its own, on any provider answer

\* three entries of the provider's catalog; against the query "Movie" their
\* titles have similarity 1, 1/2 and 0
Catalog ==
    { [title |-> <<"Movie">>, year |-> "2010", id |-> 1, sim |-> 0],
      [title |-> <<"Movie", "Show">>, year |-> "", id |-> 2, sim |-> 0],
      [title |-> <<"Show">>, year |-> "2010", id |-> 3, sim |-> 0] }

Answers == UNION { [1..n -> Catalog] : n \in 0..MaxListed }

\* the thresholds callers pass: none, the relaxed one and the default
Thresholds == {0, 5000, 8000}

InitSearch ==
    /\ Fresh(NoLayers, 1, {{}})
    /\ pc = "search"
    /\ audio_input = NoTranscription
    /\ arguments \in [movie : BOOLEAN, results : Answers, title : {<<"Movie">>},
                       year : {"", "2010"}, min_score : Thresholds, fail : BOOLEAN]
    /\ returned = <<>>
    /\ builder = NoBuild

\* tmdb_client.py lines 37-112 and 114-181: one call of search_movie or of
\* search_tv_show
CallSearch ==
    /\ pc = "search"
    /\ returned' = IF arguments.movie
                   THEN search_movie(arguments.results, arguments.title, arguments.year,
                                     arguments.min_score, arguments.fail)
                   ELSE search_tv_show(arguments.results, arguments.title,
                                       arguments.min_score, arguments.fail)
    /\ pc' = "search_done"
    /\ UNCHANGED <<options, videos_found, builder, arguments, idx, perfile, stats, filesystem,
                   outcome>>

NextSearch == CallSearch

SpecSearch == InitSearch /\ [][NextSearch]_vars

\* ============================================================== properties

\* C1: once Layer 0 has left a confidence of at least 0.95, the rest of the
\* file's pipeline gathers no evidence: the visual/OCR analysis and the audio
\* matcher are never called, the blocks of Layers 1, 2 and 3 are never
\* executed, and the confidence stays what Layer 0 made it, under every
\* combination of enabled layers and input modules.
C1_EarlyExit ==
    capa_0_confidence >= 9500 =>
        /\ calls.visual = 0
        /\ calls.audio = 0
        /\ ran \cap {"capa_1", "capa_2", "capa_3"} = {}
        /\ ~analysis_result.found
        /\ ~audio_match.found
        /\ final_confidence = capa_0_confidence

\* a confirmed file reaches the decision with every layer and module enabled
C1_Witness ==
    /\ pc = "decision"
    /\ capa_0_confidence >= 9500
    /\ options.capa_1 /\ options.capa_2 /\ options.capa_3
    /\ options.facial_recognition /\ options.ocr_analysis /\ options.audio_whisper

\* C2: the decision accepts a file (goes on to build its destination)
\* exactly when its final confidence is at least 0.60, and defers it exactly
\* when the confidence is below 0.60; only accepted files get past the
\* decision.
C2_Threshold ==
    /\ [][pc = "decision" =>
            /\ (final_confidence >= 6000) <=> (pc' = "structure" /\ outcome' = outcome)
            /\ (final_confidence < 6000) <=> (pc' = "loop" /\ outcome'[idx] = "deferred")
         ]_vars
    /\ [](pc \in {"structure", "move", "sidecar"} => final_confidence >= 6000)

\* a file whose confidence is exactly 0.60 has been accepted
C2_Witness == pc = "structure" /\ final_confidence = 6000

\* C3: deferring a file leaves it in the source tree, moves nothing, creates
\* no destination folder and no sidecar, raises the low-confidence counter
\* by one and leaves the error counter (and the processed counters) alone;
\* the file is still in the source for the rest of the run.
C3_Deferred ==
    /\ [][(pc = "decision" /\ final_confidence < 6000) =>
            /\ outcome'[idx] = "deferred"
            /\ idx \in source'
            /\ UNCHANGED <<source, dest, folders, sidecars>>
            /\ stats'.skipped_low_confidence = stats.skipped_low_confidence + 1
            /\ stats'.errors = stats.errors
            /\ stats'.movies_processed = stats.movies_processed
            /\ stats'.series_processed = stats.series_processed
         ]_vars
    /\ [](\A k \in 1..videos_found : outcome[k] = "deferred" => k \in source)

\* the run is over, its first file was deferred and its last one moved
C3_Witness ==
    /\ pc = "done"
    /\ outcome[1] = "deferred"
    /\ outcome[videos_found] = "moved"
    /\ 1 \in source
    /\ stats.skipped_low_confidence = 1
    /\ stats.errors = 0

C5_MatcherFailure ==
    /\ []( /\ "metadata" \in failed => (~tmdb_info.found /\ capa_0_confidence = 0)
           /\ "visual" \in failed => ~analysis_result.found
           /\ "audio" \in failed => ~audio_match.found )
    /\ [][(failed' # failed /\ failed' # {}) =>
            /\ final_confidence' = final_confidence
            /\ idx' = idx
            /\ outcome' = outcome
            /\ stats' = stats
            /\ UNCHANGED <<source, dest, folders, sidecars>>
            /\ pc' \in {"visual", "capa_1", "capa_3", "audio_done"}
         ]_vars
    /\ [][(pc = "capa_1" /\ "visual" \in failed /\ "capa_1" \in ran') =>
            final_confidence' = final_confidence]_vars
    /\ [][(pc = "capa_3" /\ "visual" \in failed /\ "capa_3" \in ran') =>
            final_confidence' = IF final_confidence < 4000 THEN final_confidence
                                ELSE 4000]_vars

\* all three matchers failed for one file and every layer still ran
C5_Witness ==
    /\ pc = "decision"
    /\ failed = {"metadata", "visual", "audio"}
    /\ ran = {"capa_0", "capa_1", "capa_2", "capa_3"}

\* lines 323-324: the destination path generated for the current file
Generated ==
    Path(create_jellyfin_structure(video_info),
         generate_jellyfin_filename(video_info, file.stem), file.ext)

\* the current file has been moved under another name than the generated one
Renamed == pc = "sidecar" /\ options.move_files /\ dest_file # Generated

\* the renamed file carries the first free counter on the generated stem
\* without one trailing numeric group
FirstFreeCounter ==
    LET stem == Generated.stem
        base == IF stem # <<>> /\ stem[Len(stem)] \in NumGroups
                THEN SubSeq(stem, 1, Len(stem) - 1) ELSE stem
        name(n) == [Generated EXCEPT !.stem = Append(base, Paren(n))]
    IN  \E n \in 1..(Cardinality(dest) + 1) :
            /\ dest_file = name(n)
            /\ \A m \in 1..(n - 1) : name(m) \in dest \ {dest_file}

\* C6 (as stated): on a collision the name chosen carries the first free
\* counter, and no chosen name ends in two consecutive numeric suffixes.
C6_Original ==
    Renamed => (FirstFreeCounter /\ TrailingGroups(dest_file.stem) < 2)

\* C6 (amended): on a collision one trailing numeric group of the generated
\* stem, if it has one, is replaced by the first free counter, so the name
\* chosen ends in exactly as many numeric groups as the generated name, and
\* in exactly one when the generated name ends in none: renaming never adds
\* a suffix on top of an existing one.
C6_NoCompounding ==
    Renamed =>
        /\ FirstFreeCounter
        /\ TrailingGroups(dest_file.stem) =
              (IF TrailingGroups(Generated.stem) = 0 THEN 1
               ELSE TrailingGroups(Generated.stem))

\* "Movie (1).mkv" is there, "Movie.mkv" collides and becomes "Movie (2).mkv"
C6_Witness ==
    /\ Renamed
    /\ Generated = Path(MovieDir, <<"Movie">>, ".mkv")
    /\ Path(MovieDir, <<"Movie", "(1)">>, ".mkv") \in dest
    /\ dest_file = Path(MovieDir, <<"Movie", "(2)">>, ".mkv")

\* C7 (as stated): the audio matcher returns a title only when at least two
\* of the submitted phrases returned a result with that title.
C7_Original ==
    audio_match.found =>
        Cardinality(PhrasesMatching(audio_input.hits, audio_match.title)) >= 2

\* C8: whenever the block of Layer 2 runs: an audio match of score at least
\* 0.75 sets the confidence to 0.98, a match of lower score halves it, and
\* no match leaves it unchanged; a file Layer 0 left at 0.70 whose audio
\* match is weak therefore reaches the decision at 0.35 and is deferred
\* when Layer 3 does not run.
C8_Capa2Rule ==
    /\ [][(pc = "capa_2" /\ "capa_2" \in ran') =>
            /\ (audio_match'.found /\ audio_match'.confidence_score >= 7500)
                  => final_confidence' = 9800
            /\ (audio_match'.found /\ audio_match'.confidence_score < 7500)
                  => 2 * final_confidence' = final_confidence
            /\ ~audio_match'.found => final_confidence' = final_confidence
         ]_vars
    /\ [][(/\ pc = "decision"
           /\ capa_0_confidence = 7000
           /\ ran = {"capa_0", "capa_2"}
           /\ audio_match.found
           /\ audio_match.confidence_score < 7500) =>
            (final_confidence = 3500 /\ outcome'[idx] = "deferred")
         ]_vars

\* Layer 0 left 0.70, a weak audio match halved it, Layer 3 did not run
C8_Witness ==
    /\ pc = "decision"
    /\ capa_0_confidence = 7000
    /\ ran = {"capa_0", "capa_2"}
    /\ audio_match.found
    /\ audio_match.confidence_score < 7500
    /\ final_confidence = 3500

\* C9: whenever the block of Layer 1 runs with hash score h (the visual
\* analysis confidence, 0 without an analysis) and current confidence c:
\* the confidence becomes 0.95 if h >= 0.85, else the larger of c and 0.8 h
\* if h > c, else it stays c.
C9_Capa1Rule ==
    [][(pc = "capa_1" /\ "capa_1" \in ran') =>
         LET h == IF analysis_result.found THEN analysis_result.confidence ELSE 0
             c == final_confidence
         IN  IF h >= 8500 THEN final_confidence' = 9500
             ELSE IF h > c /\ 8 * h > 10 * c THEN 10 * final_confidence' = 8 * h
             ELSE final_confidence' = c
      ]_vars

\* h = 0.70 exceeds c = 0.60 but 0.8 h = 0.56 does not: the confidence stays
C9_Witness ==
    /\ pc = "capa_2"
    /\ "capa_1" \in ran
    /\ analysis_result.found
    /\ analysis_result.confidence = 7000
    /\ capa_0_confidence = 6000
    /\ final_confidence = 6000

\* C10: whenever the block of Layer 3 runs with verification confidence v
\* (0.9 times the visual analysis confidence, 0 without an analysis) and
\* current confidence c: the confidence becomes 0.80 if v >= 0.80, 0.65 if
\* 0.50 < v < 0.80, and the smaller of c and 0.40 otherwise.
C10_Capa3Rule ==
    [][(pc = "capa_3" /\ "capa_3" \in ran') =>
         LET tenv == IF analysis_result.found THEN 9 * analysis_result.confidence
                     ELSE 0
             c == final_confidence
         IN  IF tenv >= 80000 THEN final_confidence' = 8000
             ELSE IF tenv > 50000 THEN final_confidence' = 6500
             ELSE final_confidence' = (IF c < 4000 THEN c ELSE 4000)
      ]_vars

\* Layer 0 left 0.599, Layer 3 ran without evidence and lowered it to 0.40
C10_Witness ==
    /\ pc = "decision"
    /\ "capa_3" \in ran
    /\ capa_0_confidence = 5990
    /\ ~analysis_result.found
    /\ final_confidence = 4000

\* C11: the guards of Layers 2 and 3 read the current confidence: the block
\* of Layer 2 runs exactly when Layer 2 is enabled and the confidence Layer
\* 1 left is below 0.90, the block of Layer 3 exactly when Layer 3 is
\* enabled and the confidence Layer 2 left is below 0.60; so after a Layer
\* 1 boost to 0.95 neither Layer 2 nor Layer 3 runs, and after a Layer 2
\* penalty an enabled Layer 3 runs whatever Layer 0 had produced.
C11_CurrentConfidence ==
    /\ [][pc = "capa_2" =>
            (("capa_2" \in ran') <=> (options.capa_2 /\ final_confidence < 9000))]_vars
    /\ [][pc = "capa_3" =>
            (("capa_3" \in ran') <=> (options.capa_3 /\ final_confidence < 6000))]_vars
    /\ []((/\ pc = "decision"
           /\ "capa_1" \in ran
           /\ analysis_result.found
           /\ analysis_result.confidence >= 8500) =>
            (ran \cap {"capa_2", "capa_3"} = {} /\ final_confidence = 9500))
    /\ []((/\ pc = "decision"
           /\ "capa_2" \in ran
           /\ audio_match.found
           /\ audio_match.confidence_score < 7500
           /\ options.capa_3) => "capa_3" \in ran)

\* Layer 0 left 0.70 (above the threshold of Layer 3), the audio penalty
\* took it below 0.60 and Layer 3 ran
C11_Witness ==
    /\ pc = "decision"
    /\ capa_0_confidence = 7000
    /\ ran = {"capa_0", "capa_2", "capa_3"}
    /\ audio_match.found
    /\ audio_match.confidence_score < 7500

\* C12: a file the parser does not recognise (problematic name, or flagged
\* as a series without matching a series pattern) never enters the
\* pipeline, so no matcher is called for it; the iteration that skips a
\* file leaves the file system alone, leaves the file in the source tree
\* for the rest of the run and raises only the unrecognized counter.
C12_Unrecognized ==
    /\ []((pc \in {"capa_0", "visual", "capa_1", "capa_2", "capa_3", "decision",
                   "structure", "move", "sidecar"} \/ calls # NoCalls) =>
            (/\ ~file.problematic
             /\ (file.extra \/ ~file.series_flag \/ file.series_match)))
    /\ [][(pc = "loop" /\ idx <= videos_found /\ pc' = "loop") =>
            /\ outcome'[idx] = "unrecognized"
            /\ calls = NoCalls /\ calls' = NoCalls
            /\ idx \in source'
            /\ UNCHANGED <<source, dest, folders, sidecars>>
            /\ stats' = [stats EXCEPT !.unknown_files = @ + 1]
         ]_vars
    /\ [](\A k \in 1..videos_found : outcome[k] = "unrecognized" => k \in source)

\* the first file was not recognised and is still in the source tree after
\* the last file has been moved
C12_Witness ==
    /\ pc = "done"
    /\ outcome[1] = "unrecognized"
    /\ outcome[videos_found] = "moved"
    /\ 1 \in source
    /\ stats.unknown_files = 1

\* C13: the confidence is 0 when Layer 0 is entered; the block of Layer 0
\* makes it the similarity score of the match, or leaves it 0 when the
\* metadata matcher returns nothing; with Layers 1, 2 and 3 disabled a file
\* without a match therefore reaches the decision at 0, is deferred and
\* stays in the source tree.
C13_Capa0 ==
    /\ [](pc = "capa_0" => final_confidence = 0)
    /\ [][(pc = "capa_0" /\ "capa_0" \in ran') =>
            final_confidence' = (IF tmdb_info'.found THEN tmdb_info'.similarity_score
                                 ELSE 0)]_vars
    /\ [][(/\ pc = "decision"
           /\ ~tmdb_info.found
           /\ ~options.capa_1 /\ ~options.capa_2 /\ ~options.capa_3) =>
            /\ final_confidence = 0
            /\ outcome'[idx] = "deferred"
            /\ idx \in source'
            /\ UNCHANGED <<source, dest, folders, sidecars>>
         ]_vars

\* "Show.S01E03.mkv": the search ran and returned nothing, no other layer
\* is enabled, and the file is at the decision with confidence 0
C13_Witness ==
    /\ pc = "decision"
    /\ video_info.type = "series"
    /\ ran = {"capa_0"}
    /\ ~tmdb_info.found
    /\ ~options.capa_1 /\ ~options.capa_2 /\ ~options.capa_3
    /\ final_confidence = 0

\* the file "Movie.2010.1080p.mkv" with the Layer 0 match "Movie" (2010) of
\* similarity 1.0 plus the year bonus
ScenarioA ==
    /\ file.stem = <<"Movie.2010.1080p">>
    /\ tmdb_info.found
    /\ tmdb_info.title = <<"Movie">>
    /\ tmdb_info.year = "2010"
    /\ tmdb_info.similarity_score = 12000

C15_Original ==
    /\ final_confidence \in 0..10000
    /\ capa_0_confidence \in 0..10000

\* C16 (as stated): for all titles a and b, calculate_title_similarity(a, b)
\* is 1 if and only if a.lower() == b.lower().
C16_Original ==
    pc = "similarity_done" =>
        (returned = 10000 <=> LowerTitle(arguments[1]) = LowerTitle(arguments[2]))

\* C16 (amended): for all titles a and b, calculate_title_similarity(a, b) is
\* 1 if and only if a and b have the same set of lower-cased words, which
\* a.lower() == b.lower() implies and which also holds of titles that differ
\* in the order or the repetition of their words or in their spacing.
C16_SameWords ==
    pc = "similarity_done" =>
        (returned = 10000 <=> WordSet(arguments[1]) = WordSet(arguments[2]))

\* two titles of the same two words in opposite order have similarity 1
C16_Witness ==
    /\ pc = "similarity_done"
    /\ returned = 10000
    /\ arguments[1] = <<"Movie", "Show">>
    /\ arguments[2] = <<"Show", "movie">>

\* C17 (as stated): for every file name that parses to a movie or a series,
\* parsing the title it was given, as a file name, gives the same title
\* again, names that hold a year included.
C17_Original ==
    pc = "parsed_again" =>
        /\ returned[2].found
        /\ returned[2].title = returned[1].title

\* C18 (as stated): every candidate of type movie, series or extra that
\* extract_video_info returns for a name that passes the filter of
\* problematic names has a title that is not empty.
C18_Original ==
    (pc = "parsed" /\ returned[1].found) => returned[1].title # <<>>

\* C19: while one file is processed each matcher is called at most once: at
\* most one metadata search, one visual analysis and one audio analysis; the
\* blocks of Layers 1 and 3 call no matcher and both read the result the one
\* visual analysis left, without changing it.
C19_AtMostOnce ==
    /\ [](/\ calls.metadata <= 1
          /\ calls.visual <= 1
          /\ calls.audio <= 1
          /\ (analysis_result.found => calls.visual = 1)
          /\ (audio_match.found => calls.audio = 1)
          /\ (tmdb_info.found => calls.metadata = 1))
    /\ [][(pc \in {"capa_1", "capa_3"}) =>
             (/\ calls' = calls
              /\ analysis_result' = analysis_result
              /\ (pc = "capa_1" /\ "capa_1" \in ran' =>
                     final_confidence' = Capa1Update(final_confidence, analysis_result))
              /\ (pc = "capa_3" /\ "capa_3" \in ran' =>
                     final_confidence' = Capa3Update(final_confidence, analysis_result)))]_vars

\* a file for which all three matchers were called, each once, and for which
\* Layers 1 and 3 both ran on the result of the visual analysis
C19_Witness ==
    /\ pc = "decision"
    /\ calls = [metadata |-> 1, visual |-> 1, audio |-> 1]
    /\ {"capa_1", "capa_3"} \subseteq ran
    /\ analysis_result.found

\* C20: for an accepted file the .nfo file is written only if Layer 0
\* returned a match with a catalog id, and the analysis file is written
\* whenever the visual analysis returned a result for the file, whether or
\* not Layer 1 or Layer 3 used it; files that are not accepted get neither.
C20_Sidecars ==
    /\ [][(pc = "sidecar") =>
             LET nfo == [dest_file EXCEPT !.ext = ".nfo"]
                 analysis == [dest_file EXCEPT !.ext = ".analysis.txt"]
             IN  /\ (nfo \in sidecars' =>
                        /\ "capa_0" \in ran /\ calls.metadata = 1
                        /\ tmdb_info.found /\ tmdb_info.tmdb_id # 0)
                 /\ (calls.visual = 1 /\ analysis_result.found => analysis \in sidecars')
                 /\ (analysis \in sidecars' => analysis_result.found)
                 /\ sidecars' \subseteq {nfo, analysis}]_vars
    /\ [](sidecars # {} => /\ pc \in {"loop", "done"}
                           /\ outcome[1] \in {"moved", "analysed"})

\* an accepted file whose analysis file was written and whose .nfo file was
\* not, in a run with Layer 0 enabled and Layer 1 disabled
C20_Witness ==
    /\ pc = "done"
    /\ outcome[1] = "moved"
    /\ options.capa_0 /\ ~options.capa_1
    /\ \E f \in sidecars : f.ext = ".analysis.txt"
    /\ \A f \in sidecars : f.ext # ".nfo"

\* score of the k-th result of the call in arguments, as the search computes it
ArgScore(k) ==
    IF arguments.movie
    THEN MovieScore(arguments.results[k], arguments.title, arguments.year)
    ELSE Similarity(arguments.results[k], arguments.title)

\* positions of the first five results of the call in arguments
FirstFive == 1..Min(Len(arguments.results), 5)

\* C21: the metadata search returns a match only for a result among the
\* first five whose score is the highest of the five and at least the
\* caller's minimum, and returns None otherwise; so the similarity_score
\* it hands over is at least the minimum, and a result beyond the fifth is
\* never returned.
C21_BestOfFive ==
    pc = "search_done" =>
        /\ returned.found =>
              /\ returned.similarity_score >= arguments.min_score
              /\ \E k \in FirstFive :
                    /\ returned.tmdb_id = arguments.results[k].id
                    /\ returned.title = arguments.results[k].title
                    /\ returned.similarity_score = ArgScore(k)
              /\ \A k \in FirstFive : ArgScore(k) <= returned.similarity_score
        /\ ~returned.found =>
              \/ arguments.fail
              \/ \A k \in FirstFive : ArgScore(k) < arguments.min_score
              \/ \A k \in FirstFive : ArgScore(k) = 0

\* the best result of six is the sixth: the best of the first five, which
\* passes the minimum, is returned instead
C21_Witness ==
    /\ pc = "search_done"
    /\ Len(arguments.results) = 6
    /\ arguments.movie /\ arguments.year = "2010" /\ arguments.min_score = 5000
    /\ arguments.results[6].id = 1
    /\ \A k \in 1..5 : arguments.results[k].id # 1
    /\ returned.found
    /\ returned.tmdb_id = 2
    /\ returned.similarity_score = 5000

\* ================================ perform_visual_analysis, called on its own
\* video_analyzer.py lines 578-583: the frames at 5%, 10%, 50% and 90%
STRATEGIC_FRAMES == 4

\* lines 603-616: what a frame that could be read gives: useful text, and a
\* face of the actors database
FrameResults == [text : BOOLEAN, actors : BOOLEAN]

\* lines 588-620: the frames that could be read
FrameLists == UNION { [1..n -> FrameResults] : n \in 0..STRATEGIC_FRAMES }

\* lines 606-607 and 624: some frame gave useful text
all_text(frames) == \E i \in 1..Len(frames) : frames[i].text

\* lines 613-615 and 637: some frame showed a known face
detected_actors(frames) == \E i \in 1..Len(frames) : frames[i].actors

InitVisual ==
    /\ Fresh(NoLayers, 1, {{}})
    /\ pc = "analysis"
    /\ audio_input = NoTranscription
    /\ arguments \in [frames : FrameLists, from_text : BOOLEAN, fail : BOOLEAN]
    /\ returned = <<>>
    /\ builder = NoBuild

\* video_analyzer.py lines 545-676: one call of perform_visual_analysis
CallVisual ==
    /\ pc = "analysis"
    /\ returned' = perform_visual_analysis(all_text(arguments.frames), arguments.from_text,
                                           detected_actors(arguments.frames), arguments.fail)
    /\ pc' = "analysis_done"
    /\ UNCHANGED <<options, videos_found, builder, arguments, idx, perfile, stats,
                   filesystem, outcome>>

NextVisual == CallVisual

SpecVisual == InitVisual /\ [][NextVisual]_vars

\* ============================= video_sort_app.py: the "Procesar Videos" button
\* Every click runs VideoSortPro.process_videos on the GUI thread, which
\* starts one more daemon thread running FileOrganizer.process_videos on the
\* folders of the window.  `arguments` holds, per thread, where it is.
MaxClicks == 2
Threads == 1..MaxClicks

\* file_organizer.py lines 170-171: the video files found under the source
\* path, as a list
Listing(files) ==
    CHOOSE list \in [1..Cardinality(files) -> files] :
        \A i, j \in 1..Cardinality(files) : i < j => list[i] < list[j]

NotStarted == [at |-> "idle", videos |-> <<>>, i |-> 0]

InitGui ==
    /\ Fresh(RunOptions, NumFiles, {{}})
    /\ pc = "gui"
    /\ audio_input = NoTranscription
    /\ arguments = [t \in Threads |-> NotStarted]
    /\ returned = <<>>
    /\ builder = NoBuild

\* video_sort_app.py lines 581-636 and file_organizer.py lines 154-176: a
\* click starts a thread, whatever the earlier threads are doing; the thread
\* lists the files of the source folder
Click(t) ==
    /\ arguments[t].at = "idle"
    /\ \A u \in 1..(t - 1) : arguments[u].at # "idle"
    /\ arguments' = [arguments EXCEPT ![t] =
                        [at |-> "loop", videos |-> Listing(source), i |-> 1]]
    /\ UNCHANGED <<options, videos_found, builder, returned, idx, pc, perfile, stats,
                   filesystem, outcome>>

\* file_organizer.py lines 178-335: one file of the thread's list, up to the
\* call of shutil.move; a file that is deferred, or whose processing raises
\* (a file that is gone included), ends its iteration here
Iterate(t) ==
    /\ arguments[t].at = "loop"
    /\ arguments[t].i <= Len(arguments[t].videos)
    /\ \E accepted \in BOOLEAN :
         arguments' = [arguments EXCEPT ![t] =
                          IF accepted /\ @.videos[@.i] \in source
                          THEN [@ EXCEPT !.at = "moving"]
                          ELSE [@ EXCEPT !.i = @ + 1]]
    /\ UNCHANGED <<options, videos_found, builder, returned, idx, pc, perfile, stats,
                   filesystem, outcome>>

\* file_organizer.py lines 335-345: shutil.move returns or raises
EndMove(t) ==
    /\ arguments[t].at = "moving"
    /\ LET video_path == arguments[t].videos[arguments[t].i]
       IN  \E moved \in BOOLEAN :
             IF moved /\ video_path \in source
             THEN /\ source' = source \ {video_path}
                  /\ outcome' = [outcome EXCEPT ![video_path] = "moved"]
             ELSE UNCHANGED <<source, outcome>>
    /\ arguments' = [arguments EXCEPT ![t] = [@ EXCEPT !.at = "loop", !.i = @ + 1]]
    /\ UNCHANGED <<options, videos_found, builder, returned, idx, pc, perfile, stats,
                   dest, folders, sidecars>>

\* file_organizer.py lines 347-355: the list is exhausted, the thread returns
Return(t) ==
    /\ arguments[t].at = "loop"
    /\ arguments[t].i > Len(arguments[t].videos)
    /\ arguments' = [arguments EXCEPT ![t] = [@ EXCEPT !.at = "returned"]]
    /\ UNCHANGED <<options, videos_found, builder, returned, idx, pc, perfile, stats,
                   filesystem, outcome>>

NextGui ==
    \E t \in Threads :
        \/ Click(t)
        \/ Iterate(t)
        \/ EndMove(t)
        \/ Return(t)

SpecGui == InitGui /\ [][NextGui]_vars

\* ===================== reference_database_builder.py: the build from TMDb
\* build_database_from_tmdb_popular runs on a thread of its own (video_sort_app
\* lines 1060-1081) while the pause and stop buttons of the window call
\* pause_processing, resume_processing and stop_processing on the same
\* builder.  `builder` holds the fields of the builder, the locals of the
\* build and where the build thread is; stop_called, pause_called and started
\* (the work items begun) only record what happened.
MaxItems == 2
MaxPageSize == 2
MaxPage == 3

\* page numbers from MaxPage on are not told apart
NextPage(page) == IF page < MaxPage THEN page + 1 ELSE MaxPage

\* lines 425-429: the build has reset the flags and is about to test the
\* condition of its while loop
InitBuild ==
    /\ Fresh(NoLayers, 1, {{}})
    /\ pc = "build"
    /\ audio_input = NoTranscription
    /\ arguments = <<>>
    /\ returned = <<>>
    /\ builder \in [at : {"while"}, should_stop : {FALSE}, paused : {FALSE},
                    max_items : 0..MaxItems, page : {1}, processed_count : {0},
                    movies : {0}, k : {0}, started : {0},
                    stop_called : {FALSE}, pause_called : {FALSE}]

\* line 431: the condition of the page loop
BuildWhile ==
    /\ builder.at = "while"
    /\ builder' = [builder EXCEPT !.at =
                      IF builder.processed_count < builder.max_items /\ ~builder.should_stop
                      THEN "request" ELSE "finished"]
    /\ UNCHANGED <<options, videos_found, arguments, returned, idx, pc, perfile,
                   stats, filesystem, outcome>>

\* lines 432-439 and 477-478: the request of one page, which fails, or
\* answers no movie, or answers some movies
BuildRequest ==
    /\ builder.at = "request"
    /\ \E fail \in BOOLEAN, movies \in 0..MaxPageSize :
         builder' = IF fail
                    THEN [builder EXCEPT !.page = NextPage(@), !.at = "while"]
                    ELSE IF movies = 0
                    THEN [builder EXCEPT !.at = "finished"]
                    ELSE [builder EXCEPT !.movies = movies, !.k = 1, !.at = "for"]
    /\ UNCHANGED <<options, videos_found, arguments, returned, idx, pc, perfile,
                   stats, filesystem, outcome>>

\* lines 441-443 and 475: the next movie of the page, if the limit and the
\* stop flag allow one; otherwise the next page
BuildFor ==
    /\ builder.at = "for"
    /\ builder' = IF \/ builder.k > builder.movies
                     \/ builder.processed_count >= builder.max_items
                     \/ builder.should_stop
                  THEN [builder EXCEPT !.page = NextPage(@), !.at = "while"]
                  ELSE [builder EXCEPT !.at = "wait"]
    /\ UNCHANGED <<options, videos_found, arguments, returned, idx, pc, perfile,
                   stats, filesystem, outcome>>

\* line 444: the build sleeps as long as it is paused, then begins the item
BuildWait ==
    /\ builder.at = "wait"
    /\ ~builder.paused
    /\ builder' = [builder EXCEPT !.at = "item", !.started = @ + 1]
    /\ UNCHANGED <<options, videos_found, arguments, returned, idx, pc, perfile,
                   stats, filesystem, outcome>>

\* lines 446-474: the work on one movie.  It either goes through to the
\* count of line 471 (or 475, when it raises), or first comes to one of the
\* pause loops inside process_content_images and process_content_video
\* (lines 289-290, 355-356), which lie behind a test of the stop flag
BuildItem ==
    /\ builder.at = "item"
    /\ \E polls \in BOOLEAN :
         builder' = IF polls /\ ~builder.should_stop
                    THEN [builder EXCEPT !.at = "inner"]
                    ELSE [builder EXCEPT !.processed_count = @ + 1, !.k = @ + 1,
                                         !.at = "for"]
    /\ UNCHANGED <<options, videos_found, arguments, returned, idx, pc, perfile,
                   stats, filesystem, outcome>>

\* lines 290 and 356: the item sleeps as long as the build is paused, then
\* it is finished and counted
BuildInner ==
    /\ builder.at = "inner"
    /\ ~builder.paused
    /\ builder' = [builder EXCEPT !.processed_count = @ + 1, !.k = @ + 1, !.at = "for"]
    /\ UNCHANGED <<options, videos_found, arguments, returned, idx, pc, perfile,
                   stats, filesystem, outcome>>

\* video_sort_app.py lines 1083-1086: the pause button pauses or resumes
pause_db_construction ==
    /\ builder.at # "finished"
    /\ builder' = [builder EXCEPT !.paused = ~@, !.pause_called = TRUE]
    /\ UNCHANGED <<options, videos_found, arguments, returned, idx, pc, perfile,
                   stats, filesystem, outcome>>

\* video_sort_app.py lines 1088-1090 and line 404: the stop button
stop_processing ==
    /\ builder.at # "finished"
    /\ builder' = [builder EXCEPT !.should_stop = TRUE, !.paused = FALSE,
                                  !.stop_called = TRUE]
    /\ UNCHANGED <<options, videos_found, arguments, returned, idx, pc, perfile,
                   stats, filesystem, outcome>>

\* the steps of the build thread
BuildThread ==
    \/ BuildWhile
    \/ BuildRequest
    \/ BuildFor
    \/ BuildWait
    \/ BuildItem
    \/ BuildInner

NextBuild ==
    \/ BuildThread
    \/ pause_db_construction
    \/ stop_processing

SpecBuild == InitBuild /\ [][NextBuild]_vars

\* the build thread is a thread of the operating system: it is not held up
\* for ever while it can take a step; nothing is assumed of the buttons
SpecBuildFair == SpecBuild /\ WF_vars(BuildThread)

\* the counters of accepted and of deferred files
Counted ==
    <<stats.movies_processed, stats.series_processed, stats.unknown_files,
      stats.skipped_low_confidence>>

\* C22: a dry run (move_files false) moves no source file and puts no video
\* file into the destination tree, whatever the files are; the decision on
\* a file is taken from its confidence alone in both kinds of run, and the
\* steps that read move_files, which come after the decision, leave the
\* counters of accepted and deferred files as they are in both kinds of run.
C22_DryRun ==
    /\ [](~options.move_files =>
             /\ source = 1..videos_found
             /\ dest \in {{}, PreExisting}
             /\ \A i \in 1..videos_found : outcome[i] \notin {"moved", "exception"})
    /\ [][(pc = "decision") =>
             /\ (final_confidence < FINAL_CONFIDENCE_THRESHOLD) <=>
                    (outcome'[idx] = "deferred")
             /\ (final_confidence >= FINAL_CONFIDENCE_THRESHOLD) <=> (pc' = "structure")]_vars
    /\ [][(pc \in {"move", "sidecar"}) =>
             /\ Counted' = Counted
             /\ outcome'[idx] \in {"pending", "exception",
                                   IF options.move_files THEN "moved" ELSE "analysed"}]_vars

\* the end of a dry run in which the first file was accepted as a movie and
\* the second one deferred: both are still in the source tree
C22_Witness ==
    /\ pc = "done"
    /\ ~options.move_files
    /\ outcome = <<"analysed", "deferred">>
    /\ source = {1, 2}
    /\ dest = {}
    /\ stats.movies_processed = 1
    /\ stats.skipped_low_confidence = 1

\* C23 (as stated): at no time are the moves of two files in progress
\* together, also when processing is started from the GUI more than once.
C23_Original ==
    Cardinality({t \in Threads : arguments[t].at = "moving"}) <= 1

\* C24 (as stated): once stop_processing has been called during a build,
\* paused or not and whatever pause and resume calls follow, the build
\* begins no further work item, and it eventually terminates.
C24_Original ==
    /\ [][builder.stop_called => builder'.started = builder.started]_vars
    /\ (builder.stop_called ~> (builder.at = "finished"))

\* C30 (as stated): a build in which no stop is requested terminates, with
\* no more than max_items items processed; checked on the builds that are
\* not paused either.
C30_Original ==
    /\ [](builder.processed_count <= builder.max_items)
    /\ <>(builder.at = "finished" \/ builder.stop_called \/ builder.pause_called)

\* C25 (as stated): an analysis that found text and recognised an actor,
\* with no title guess derivable from the text, scores 0.8.
C25_Original ==
    ( /\ pc = "analysis_done"
      /\ ~arguments.fail
      /\ all_text(arguments.frames)
      /\ detected_actors(arguments.frames)
      /\ ~arguments.from_text ) =>
        (returned.found /\ returned.confidence = 8000)

\* C25 (amended): the score is 0.5 for text found, plus 0.3 for a recognised
\* actor, plus 0.2 for a search suggestion; a recognised actor always leaves
\* a suggestion, so text together with an actor scores 1.0 whether or not
\* the text gives a title guess, the only scores are 0.5, 0.7 and 1.0, and
\* the evidence is returned exactly when the analysis did not fail and found
\* text or an actor, its score then being above 0.3.
C25_Score ==
    pc = "analysis_done" =>
        LET text == all_text(arguments.frames)
            actors == detected_actors(arguments.frames)
        IN  /\ returned.found <=> (~arguments.fail /\ (text \/ actors))
            /\ returned.found =>
                 /\ returned.detected_text = text
                 /\ returned.actors = actors
                 /\ returned.suggestion = ((text /\ arguments.from_text) \/ actors)
                 /\ returned.confidence =
                        (IF returned.detected_text THEN 5000 ELSE 0)
                      + (IF returned.actors THEN 3000 ELSE 0)
                      + (IF returned.suggestion THEN 2000 ELSE 0)
                 /\ returned.confidence > VISUAL_MIN
                 /\ returned.confidence \in {5000, 7000, 10000}
                 /\ (text /\ actors) => returned.confidence = 10000

\* text in one frame, an actor in another, no title guess from the text:
\* the evidence scores 1.0
C25_Witness ==
    /\ pc = "analysis_done"
    /\ ~arguments.fail
    /\ ~arguments.from_text
    /\ arguments.frames = <<[text |-> TRUE, actors |-> FALSE],
                            [text |-> FALSE, actors |-> TRUE]>>
    /\ returned.found
    /\ returned.confidence = 10000

\* C26 (as stated): the confidence of an audio match is the smaller of 0.9
\* and matched phrases over phrases tried, where the phrases tried are those
\* submitted to the subtitle search and the matched ones are never more.
C26_Original ==
    audio_match.found =>
        LET tried == Submitted(audio_input.phrases)
        IN  /\ audio_match.total_phrases = tried
            /\ audio_match.matched_phrases <= tried
            /\ audio_match.confidence_score =
                   Min(AUDIO_CAP, (audio_match.matched_phrases * 10000) \div tried)

\* C27 (as stated): at the end of a run the counters movies_processed,
\* series_processed, unknown_files and errors add up to the number of files
\* found, each file having been counted in exactly one of them.
C27_Original ==
    pc = "done" =>
        stats.movies_processed + stats.series_processed
            + stats.unknown_files + stats.errors = videos_found

\* C28: in a run, the path a file is moved to is not in the destination tree
\* when the move is made, and a move only adds that path: no video file that
\* was there before the run or was moved earlier in it is replaced or lost;
\* whenever a move is about to be made, one of the first |dest|+1 counters
\* gives a free name, so the loop that looks for one ends.
C28_FreePath ==
    /\ [][(pc = "move" /\ source' # source) =>
            /\ dest_file' \notin dest
            /\ dest' = dest \cup {dest_file'}]_vars
    /\ [][dest \subseteq dest']_vars
    /\ [](pc = "move" =>
            \E n \in 1..(Cardinality(dest) + 1) :
                [dest_file EXCEPT !.stem = Numbered(StripSuffix(dest_file.stem), n)]
                    \notin dest)

\* the second file of a run collided and was moved under a new name, next
\* to the file that was there before the run and the first file moved
C28_Witness ==
    /\ Renamed
    /\ idx = 2
    /\ outcome[1] = "moved"
    /\ PreExisting \subseteq dest
    /\ Cardinality(dest) = 3

\* C29 (as stated): on a collision the name chosen is the whole generated
\* stem with a counter appended, so a movie generated as "Title (Year)"
\* keeps its year.
C29_Original ==
    Renamed =>
        \E n \in 1..(Cardinality(dest) + 1) :
            dest_file = [Generated EXCEPT !.stem = Numbered(Generated.stem, n)]

====
